---- MODULE Spec2Model ----
(***************************************************************************)
(* A model of the realworld-axum-seaorm backend: the relational tables,    *)
(* the constraints the migrations put on them, the two authentication      *)
(* middlewares, and the axum handlers as sequences of database statements. *)
(* Every call of a repo function is one atomic step; a handler that makes  *)
(* several calls is several steps, so that the calls of two requests       *)
(* served at the same time interleave.                                     *)
(*                                                                         *)
(* Strings whose characters matter (titles, slugs, user and tag names,     *)
(* query patterns) are sequences of one-character strings.  Option<T> is a *)
(* set with at most one element.  Columns that no handler branches on      *)
(* (description, body, bio, image, created_at) are left out of the rows.   *)
(***************************************************************************)
EXTENDS Integers, Sequences, FiniteSets, TLC

VARIABLES
    user,               \* table user:              [id, email, username, password]
    article,            \* table article:           [id, slug, title, author_id, updated_at]
    tag,                \* table tag:               [id, tag_name]
    article_tag,        \* table article_tag:       [article_id, tag_id]
    comment,            \* table comment:           [id, author_id, article_id]
    favorited_article,  \* table favorited_article: [article_id, user_id]
    follower,           \* table follower:          [user_id, follower_id]
    next_id,            \* number of Uuid::new_v4() values drawn so far, per table
    now,                \* the reading of the clock (CURRENT_TIMESTAMP, Local::now())
    req                 \* per connection: the request being served and its response

vars == <<user, article, tag, article_tag, comment, favorited_article, follower,
          next_id, now, req>>

tables == <<user, article, tag, article_tag, comment, favorited_article, follower>>

-----------------------------------------------------------------------------
(* Bounds of the model *)

\* articles inserted in one run (create_article requests that reach the insert)
MaxArticles == 2
\* users inserted in one run
MaxUsers == 2
\* comments inserted in one run
MaxComments == 1
\* latest reading of the clock when the first request arrives
MaxTime == 2
\* articles of the small listing fixtures
MaxListArticles == 2
\* articles stored in the flags specification
MaxFlagArticles == 1

\* connections served at the same time
Slots == {1, 2}

-----------------------------------------------------------------------------
(* Option<T> *)

None == {}
Some(x) == {x}
IsSome(o) == o # {}
Unwrap(o) == CHOOSE x \in o : TRUE

Min(a, b) == IF a < b THEN a ELSE b
Max(a, b) == IF a < b THEN b ELSE a

-----------------------------------------------------------------------------
(* Strings *)

Lower == {"a", "b", "x", "y"}
Digit == {"0", "1", "2", "3", "9"}
Upper == {"A"}

ToLower(c) == IF c = "A" THEN "a" ELSE c

\* The loop of slug::slugify: letters and digits are kept (upper case is
\* lowered), every other run of characters becomes one '-', none at the start.
RECURSIVE slug_push(_, _, _)
slug_push(s, acc, prev_is_dash) ==
    IF s = <<>> THEN acc
    ELSE LET c == Head(s) IN
         IF c \in Lower \cup Digit THEN slug_push(Tail(s), Append(acc, c), FALSE)
         ELSE IF c \in Upper THEN slug_push(Tail(s), Append(acc, ToLower(c)), FALSE)
         ELSE IF ~prev_is_dash THEN slug_push(Tail(s), Append(acc, "-"), TRUE)
         ELSE slug_push(Tail(s), acc, TRUE)

\* slug::slugify: the loop, then one trailing '-' is dropped.
slugify(s) ==
    LET r == slug_push(s, <<>>, TRUE) IN
    IF r # <<>> /\ r[Len(r)] = "-" THEN SubSeq(r, 1, Len(r) - 1) ELSE r

\* Uuid::simple(): the id written out in hexadecimal digits.
simple(id) == <<CASE id = 1 -> "1" [] id = 2 -> "2" [] id = 3 -> "3" [] OTHER -> "9">>

-----------------------------------------------------------------------------
(* Requests and responses *)

\* What a connection holds: the handler that runs (op), where it stands (pc),
\* the Token extension, the parsed request (arg), the handler's local
\* variables (loc) and, once pc = "done", the response (res).
NoRes == [status |-> 0, err |-> "none"]
Nil == [nil |-> TRUE]
Idle == [op |-> "none", pc |-> "idle", token |-> None, arg |-> Nil, loc |-> Nil,
         res |-> NoRes]

Free(s) == req[s].pc \in {"idle", "done"}

\* The Authorization header of a request: absent, a token that does not
\* decode (bad signature, expired), or a token that decodes to a user id.
NoHeader == [kind |-> "none", id |-> 0]
BadHeader == [kind |-> "invalid", id |-> 0]
ValidHeader(id) == [kind |-> "valid", id |-> id]

\* The id inside a token issued before the tables were emptied and seeded
\* again (app/db.rs): it decodes, and no user row has it.
StaleId == 9

\* The headers of the requests: none, one that does not decode, and the
\* tokens of the stored users; StaleHeaders has the stale token as well.
AuthHeaders == {NoHeader, BadHeader} \cup {ValidHeader(u.id) : u \in user}
StaleHeaders == AuthHeaders \cup {ValidHeader(StaleId)}

\* middleware::auth::auth: a decoded token is inserted as an extension and the
\* request forwarded; without one only GET requests are forwarded.
auth_forward_all(method, hdr) ==
    [forward |-> TRUE, token |-> IF hdr.kind = "valid" THEN Some(hdr.id) ELSE None]

auth(method, hdr) ==
    IF hdr.kind = "valid" THEN [forward |-> TRUE, token |-> Some(hdr.id)]
    ELSE IF method = "GET" THEN [forward |-> TRUE, token |-> None]
    ELSE [forward |-> FALSE, token |-> None]

\* A layer that forwards a request unless its header does not decode.
optional_auth_strict(method, hdr) ==
    [forward |-> hdr.kind # "invalid",
     token |-> IF hdr.kind = "valid" THEN Some(hdr.id) ELSE None]

\* middleware::auth::optional_auth: always forwarded.
optional_auth(method, hdr) ==
    [forward |-> TRUE, token |-> IF hdr.kind = "valid" THEN Some(hdr.id) ELSE None]

\* app::server::start: the method and the middleware layer of each route, and
\* whether the handler's signature extracts Extension<Token>.
Route(op) ==
    CASE op = "register_user"      -> [method |-> "POST",   layer |-> "optional_auth", extension |-> FALSE]
      [] op = "login_user"         -> [method |-> "POST",   layer |-> "optional_auth", extension |-> FALSE]
      [] op = "get_profile"        -> [method |-> "GET",    layer |-> "optional_auth", extension |-> FALSE]
      [] op = "list_articles"      -> [method |-> "GET",    layer |-> "optional_auth", extension |-> FALSE]
      [] op = "get_article"        -> [method |-> "GET",    layer |-> "optional_auth", extension |-> FALSE]
      [] op = "list_comments"      -> [method |-> "GET",    layer |-> "optional_auth", extension |-> FALSE]
      [] op = "list_tags"          -> [method |-> "GET",    layer |-> "optional_auth", extension |-> FALSE]
      [] op = "update_user"        -> [method |-> "PUT",    layer |-> "auth", extension |-> TRUE]
      [] op = "get_current_user"   -> [method |-> "GET",    layer |-> "auth", extension |-> TRUE]
      [] op = "follow_user"        -> [method |-> "POST",   layer |-> "auth", extension |-> TRUE]
      [] op = "unfollow_user"      -> [method |-> "DELETE", layer |-> "auth", extension |-> TRUE]
      [] op = "create_article"     -> [method |-> "POST",   layer |-> "auth", extension |-> TRUE]
      [] op = "feed_articles"      -> [method |-> "GET",    layer |-> "auth", extension |-> TRUE]
      [] op = "update_article"     -> [method |-> "PUT",    layer |-> "auth", extension |-> TRUE]
      [] op = "delete_article"     -> [method |-> "DELETE", layer |-> "auth", extension |-> FALSE]
      [] op = "favorite_article"   -> [method |-> "POST",   layer |-> "auth", extension |-> TRUE]
      [] op = "unfavorite_article" -> [method |-> "DELETE", layer |-> "auth", extension |-> TRUE]
      [] op = "create_comment"     -> [method |-> "POST",   layer |-> "auth", extension |-> TRUE]
      [] op = "delete_comment"     -> [method |-> "DELETE", layer |-> "auth", extension |-> FALSE]

\* The way of a request to its handler: through the layer of its route, then
\* through the handler's extractors.  "rejected": the middleware answered with
\* the TypedHeaderRejection; "no_extension": Extension<Token> was asked for
\* and is missing; "handler": the handler body runs with this token.
Dispatch(op, hdr) ==
    LET r == Route(op)
        m == IF r.layer = "auth" THEN auth(r.method, hdr)
             ELSE optional_auth(r.method, hdr)
    IN  IF ~m.forward THEN [outcome |-> "rejected", token |-> None]
        ELSE IF r.extension /\ m.token = None
             THEN [outcome |-> "no_extension", token |-> None]
        ELSE [outcome |-> "handler", token |-> m.token]

\* api::error::ApiErr::into_response: the status of each error.
ErrStatus(err) ==
    CASE err = "DbErr::Exec"             -> 422
      [] err = "DbErr::RecordNotUpdated" -> 404
      [] err = "UserNotExist"            -> 404
      [] err = "ArticleNotExist"         -> 404
      [] err = "WrongPass"               -> 401
      [] OTHER                           -> 500

Ok(body) == [status |-> 200, err |-> "none", body |-> body]
Err(err) == [status |-> ErrStatus(err), err |-> err]

\* The response of a request that did not reach its handler body.
Refused(d) ==
    IF d.outcome = "rejected" THEN [status |-> 400, err |-> "TypedHeaderRejection"]
    ELSE [status |-> 500, err |-> "MissingExtension"]

\* The request in slot s ends with response res, and its extensions are
\* dropped with it.  Only the latest response is kept: the connections that
\* hold an earlier one become idle.
Done(s, op, token, arg, res) ==
    req' = [t \in Slots |->
              IF t = s THEN [op |-> op, pc |-> "done", token |-> None, arg |-> arg,
                             loc |-> Nil, res |-> res]
              ELSE IF req[t].pc = "done" THEN Idle
              ELSE req[t]]

\* The request in slot s goes on to its next statement.
Goto(s, op, pc, token, arg, loc) ==
    req' = [req EXCEPT ![s] = [op |-> op, pc |-> pc, token |-> token, arg |-> arg,
                               loc |-> loc, res |-> NoRes]]

At(s, op, pc) == req[s].op = op /\ req[s].pc = pc

-----------------------------------------------------------------------------
(* The tables and their constraints *)

\* NULL in a uuid column of an outer join
Null == 0

UserIds == {u.id : u \in user}
ArticleIds == {a.id : a \in article}
TagIds == {t.id : t \in tag}

\* No two rows of a table agree on all of the columns cols.
Unique(rows, cols) ==
    \A r1 \in rows : \A r2 \in rows :
        (\A c \in cols : r1[c] = r2[c]) => r1 = r2

\* Table article (m20231030_000002): primary key id, unique key slug, unique
\* index idx-article on (author_id, title).
article_unique_no_slug(rows) ==
    /\ Unique(rows, {"id"})
    /\ Unique(rows, {"author_id", "title"})

article_unique(rows) ==
    /\ Unique(rows, {"id"})
    /\ Unique(rows, {"slug"})
    /\ Unique(rows, {"author_id", "title"})

\* FK_article_user: the author of an article row is a user row.
article_fk(row) == row.author_id \in UserIds

\* Table favorited_article (m20231104_000007): primary key (article_id,
\* user_id), foreign keys to article and to user.
favorited_article_fk_none(row) == TRUE

favorited_article_fk(row) == row.article_id \in ArticleIds /\ row.user_id \in UserIds

\* Table comment (entities/comment.rs): primary key id, foreign keys to
\* article and to user.
comment_fk(row) == row.article_id \in ArticleIds /\ row.author_id \in UserIds

\* Table follower (m20231101_000006): primary key (user_id, follower_id),
\* CHECK (NOT user_id = follower_id), foreign keys to user for both columns.
follower_fk(row) == row.user_id \in UserIds /\ row.follower_id \in UserIds
follower_check_none(row) == TRUE
follower_check(row) == ~(row.user_id = row.follower_id)

\* Table article_tag: foreign keys to article and to tag, unique index on
\* the pair.
article_tag_fk(row) == row.article_id \in ArticleIds /\ row.tag_id \in TagIds

\* ON DELETE CASCADE of the foreign keys to article: the rows of the other
\* tables that go with the article id.
cascade(rows, col, id) == {r \in rows : r[col] # id}

-----------------------------------------------------------------------------
(* repo::article, the single-article queries *)

author_following_current_user(user_id, uid) ==
    IF IsSome(user_id)
    THEN uid \in {f.follower_id : f \in {g \in follower : g.user_id = Unwrap(user_id)}}
    ELSE FALSE

\* repo::user::author_followed_by_current_user: user.id IN (SELECT user_id
\* FROM follower WHERE follower_id = id); false without an id.
author_followed_by_current_user(user_id, uid) ==
    IF IsSome(user_id)
    THEN uid \in {f.user_id : f \in {g \in follower : g.follower_id = Unwrap(user_id)}}
    ELSE FALSE

article_liked_by_any_user(user_id, aid) ==
    IF IsSome(user_id)
    THEN aid \in {f.article_id : f \in favorited_article}
    ELSE FALSE

\* repo::article::article_liked_by_current_user: article.id IN (SELECT
\* article_id FROM favorited_article WHERE user_id = id); false without an id.
article_liked_by_current_user(user_id, aid) ==
    IF IsSome(user_id)
    THEN aid \in {f.article_id : f \in {g \in favorited_article : g.user_id = Unwrap(user_id)}}
    ELSE FALSE

\* LEFT JOIN favorited_article ON article.id = favorited_article.article_id:
\* the favorite rows of the article, or one row of NULLs when it has none.
left_join_favorited(a) ==
    LET fs == {f \in favorited_article : f.article_id = a.id}
    IN  IF fs = {} THEN {[article_id |-> Null, user_id |-> Null]} ELSE fs

\* repo::article::article_favorites_count: COUNT(favorited_article.article_id)
\* over the group of an article, which counts the rows where it is not NULL.
article_favorites_count_star(group) == Cardinality(group)

article_favorites_count(group) == Cardinality({f \in group : f.article_id # Null})

\* LEFT JOIN user: the username of the author (the foreign key keeps it there).
author_name_of(a) ==
    LET us == {u \in user : u.id = a.author_id}
    IN  IF us = {} THEN <<>> ELSE (CHOOSE u \in us : TRUE).username

\* load of the related tags through article_tag
tags_of(a) ==
    {t.tag_name : t \in {t \in tag : [article_id |-> a.id, tag_id |-> t.id] \in article_tag}}

\* ArticleWithAuthor, from ModelExtended: of the article row the id (which
\* stands for slug, title, author and tags, all read from the same row) and
\* updated_at, and the computed `following`, `favorited`, `favorites_count`.
ArticleWithAuthor(a, current_user_id) ==
    [id |-> a.id, updated_at |-> a.updated_at,
     following |-> author_followed_by_current_user(current_user_id, a.author_id),
     favorited |-> article_liked_by_current_user(current_user_id, a.id),
     favorites_count |-> article_favorites_count(left_join_favorited(a))]

\* repo::article::get_article_by_id
get_article_by_id(id, current_user_id) ==
    LET found == {a \in article : a.id = id}
    IN  IF found = {} THEN None
        ELSE Some(ArticleWithAuthor(CHOOSE a \in found : TRUE, current_user_id))

\* A lookup that takes the first article whatever its slug.
get_article_model_first(slug) ==
    IF article = {} THEN None ELSE Some(CHOOSE a \in article : TRUE)

\* repo::article::get_article_model_by_slug
get_article_model_by_slug(slug) ==
    LET found == {a \in article : a.slug = slug}
    IN  IF found = {} THEN None ELSE Some(CHOOSE a \in found : TRUE)

-----------------------------------------------------------------------------
(* api::article, the handlers that write *)

\* Titles of the requests: two titles that slugify maps to one slug.
Titles == {<<"a">>, <<"A">>}

\* tagList of a create request: absent, or a list of names ("" among them)
TagNames == {<<"x">>, <<"x", "y">>}
TagLists == {None, Some({<<>>, <<"x">>})}

\* The slug in the path of a request: one that is stored, or one that is not.
NoSlug == <<"n", "o">>
PathSlugs == {a.slug : a \in article} \cup {NoSlug}

\* repo::tag::create_tags and get_tags_ids both drop the empty names.
non_empty(names) == {n \in names : n # <<>>}

\* Fresh ids for the rows of an insert_many, one per name.
RECURSIVE tag_models(_, _)
tag_models(names, base) ==
    IF names = {} THEN {}
    ELSE LET n == CHOOSE n \in names : TRUE
         IN  {[id |-> base + 1, tag_name |-> n]} \cup tag_models(names \ {n}, base + 1)

\* create_article up to repo::article::create_article: the article row gets a
\* fresh id and the slug slugify(title ++ author id); the insert is rejected by
\* a unique key or by the foreign key to user.  The request is kept as the
\* title and the author_id of the ActiveModel the handler builds from it.
create_article(s, headers, tag_lists) ==
    \E hdr \in headers, title \in Titles, tag_list \in tag_lists :
        LET d == Dispatch("create_article", hdr)
            arg == [title |-> title, author_id |-> d.token]
        IN  /\ Free(s)
            /\ UNCHANGED <<user, tag, article_tag, comment, favorited_article, follower, now>>
            /\ IF d.outcome # "handler"
               THEN /\ Done(s, "create_article", d.token, arg, Refused(d))
                    /\ UNCHANGED <<article, next_id>>
               ELSE LET current_user_id == Unwrap(d.token)
                        id == next_id.article + 1
                        row == [id |-> id,
                                slug |-> slugify(title \o simple(current_user_id)),
                                title |-> title,
                                author_id |-> current_user_id,
                                updated_at |-> now]
                        names == IF IsSome(tag_list) THEN non_empty(Unwrap(tag_list)) ELSE {}
                    IN  /\ next_id.article < MaxArticles
                        /\ IF article_unique(article \cup {row}) /\ article_fk(row)
                           THEN /\ article' = article \cup {row}
                                /\ next_id' = [next_id EXCEPT !.article = id]
                                /\ Goto(s, "create_article",
                                        IF names = {} THEN "get_article" ELSE "create_tags",
                                        d.token, arg, [id |-> id, names |-> names])
                           ELSE /\ UNCHANGED <<article, next_id>>
                                /\ Done(s, "create_article", d.token, arg, Err("DbErr::Exec"))

\* Tag::insert_many without an ON CONFLICT clause: a row for every name.
insert_many_tags(names) == names

\* repo::tag::create_tags: INSERT ... ON CONFLICT (tag_name) DO NOTHING, the
\* names that get a row are those no stored tag has.
create_tags(names) == {n \in names : \A t \in tag : t.tag_name # n}

\* create_article, repo::tag::create_tags of the names that are not empty.
create_article_create_tags(s) ==
    /\ At(s, "create_article", "create_tags")
    /\ LET r == req[s]
           fresh == create_tags(r.loc.names)
       IN  /\ tag' = tag \cup tag_models(fresh, next_id.tag)
           /\ next_id' = [next_id EXCEPT !.tag = @ + Cardinality(fresh)]
           /\ Goto(s, r.op, "get_tags_ids", r.token, r.arg, r.loc)
    /\ UNCHANGED <<user, article, article_tag, comment, favorited_article, follower, now>>

\* create_article, repo::tag::get_tags_ids: the ids of the stored tags whose
\* name is in the list.
create_article_get_tags_ids(s) ==
    /\ At(s, "create_article", "get_tags_ids")
    /\ LET r == req[s]
           tags_ids == {t.id : t \in {t \in tag : t.tag_name \in r.loc.names}}
       IN  Goto(s, r.op, "create_article_tags", r.token, r.arg,
                [id |-> r.loc.id, tags_ids |-> tags_ids])
    /\ UNCHANGED <<tables, next_id, now>>

\* create_article, repo::article_tag::create_article_tags: one row per tag id,
\* nothing when there is none; rejected by a foreign key.
create_article_create_article_tags(s) ==
    /\ At(s, "create_article", "create_article_tags")
    /\ LET r == req[s]
           rows == {[article_id |-> r.loc.id, tag_id |-> t] : t \in r.loc.tags_ids}
       IN  IF \A row \in rows : article_tag_fk(row) /\ row \notin article_tag
           THEN /\ article_tag' = article_tag \cup rows
                /\ Goto(s, r.op, "get_article", r.token, r.arg, [id |-> r.loc.id])
           ELSE /\ UNCHANGED article_tag
                /\ Done(s, r.op, r.token, r.arg, Err("DbErr::Exec"))
    /\ UNCHANGED <<user, article, tag, comment, favorited_article, follower, next_id, now>>

\* The article object of an update request: a new title, or none and
\* another field.
UpdateArticles == {[title |-> Some(<<"a">>), other |-> FALSE],
                   [title |-> None, other |-> TRUE]}

\* update_article up to repo::article::get_article_model_by_slug
update_article(s, headers) ==
    \E hdr \in headers, slug \in PathSlugs, input \in UpdateArticles :
        LET d == Dispatch("update_article", hdr)
            arg == [slug |-> slug, input |-> input]
            updated_article == get_article_model_by_slug(slug)
        IN  /\ Free(s)
            /\ UNCHANGED <<tables, next_id, now>>
            /\ IF d.outcome # "handler"
               THEN Done(s, "update_article", d.token, arg, Refused(d))
               ELSE IF updated_article = None
               THEN Done(s, "update_article", d.token, arg, Err("ArticleNotExist"))
               ELSE Goto(s, "update_article", "update", d.token, arg,
                         [id |-> Unwrap(updated_article).id])

\* update_article, repo::article::update_article: UPDATE article SET the
\* columns that were set WHERE id = the id that was read.  A new title sets
\* slug = slugify(title); any field sets updated_at.
update_article_update(s) ==
    /\ At(s, "update_article", "update")
    /\ LET r == req[s]
           input == r.arg.input
           found == {a \in article : a.id = r.loc.id}
       IN  IF found = {}
           THEN /\ UNCHANGED article
                /\ Done(s, r.op, r.token, r.arg, Err("DbErr::RecordNotUpdated"))
           ELSE LET old == CHOOSE a \in found : TRUE
                    titled == IF IsSome(input.title)
                              THEN [old EXCEPT !.slug = slugify(Unwrap(input.title)),
                                               !.title = Unwrap(input.title)]
                              ELSE old
                    new == IF IsSome(input.title) \/ input.other
                           THEN [titled EXCEPT !.updated_at = now]
                           ELSE titled
                IN  IF article_unique((article \ {old}) \cup {new})
                    THEN /\ article' = (article \ {old}) \cup {new}
                         /\ Goto(s, r.op, "get_article", r.token, r.arg, [id |-> old.id])
                    ELSE /\ UNCHANGED article
                         /\ Done(s, r.op, r.token, r.arg, Err("DbErr::Exec"))
    /\ UNCHANGED <<user, tag, article_tag, comment, favorited_article, follower, next_id, now>>

\* delete_article up to repo::article::get_article_model_by_slug.  The
\* handler extracts no token: the middleware is all that guards it.
delete_article(s, headers) ==
    \E hdr \in headers, slug \in PathSlugs :
        LET d == Dispatch("delete_article", hdr)
            arg == [slug |-> slug]
            deleted_article == get_article_model_by_slug(slug)
        IN  /\ Free(s)
            /\ UNCHANGED <<tables, next_id, now>>
            /\ IF d.outcome # "handler"
               THEN Done(s, "delete_article", d.token, Nil, Refused(d))
               ELSE IF deleted_article = None
               THEN Done(s, "delete_article", d.token, arg, Err("ArticleNotExist"))
               ELSE Goto(s, "delete_article", "delete", d.token, arg,
                         [id |-> Unwrap(deleted_article).id])

\* delete_article, repo::article::delete_article: DELETE FROM article WHERE
\* id = the id that was read; the foreign keys of comment, favorited_article
\* and article_tag cascade.
delete_article_delete(s) ==
    /\ At(s, "delete_article", "delete")
    /\ LET r == req[s]
       IN  /\ article' = {a \in article : a.id # r.loc.id}
           /\ comment' = cascade(comment, "article_id", r.loc.id)
           /\ favorited_article' = cascade(favorited_article, "article_id", r.loc.id)
           /\ article_tag' = cascade(article_tag, "article_id", r.loc.id)
           /\ Done(s, r.op, r.token, r.arg, Ok(Nil))
    /\ UNCHANGED <<user, tag, follower, next_id, now>>

\* The last statement of create_article, update_article, favorite_article and
\* unfavorite_article: repo::article::get_article_by_id for the response.
respond_get_article_by_id(s) ==
    /\ req[s].pc = "get_article"
    /\ LET r == req[s]
       IN  Done(s, r.op, r.token, r.arg,
                Ok([article |-> get_article_by_id(r.loc.id, r.token)]))
    /\ UNCHANGED <<tables, next_id, now>>

-----------------------------------------------------------------------------
(* Fixtures *)

\* hash_password: the argon2 hash of a password; a stored password that was
\* never hashed is [hashed |-> FALSE, of |-> p].
hash_password(p) == [hashed |-> TRUE, of |-> p]

\* Two registered users, "a" and "ab".
TwoUsers ==
    {[id |-> 1, email |-> <<"a">>, username |-> <<"a">>, password |-> hash_password("p")],
     [id |-> 2, email |-> <<"b">>, username |-> <<"a", "b">>, password |-> hash_password("q")]}

NoIds == [user |-> 0, article |-> 0, tag |-> 0, comment |-> 0]

-----------------------------------------------------------------------------
(* The article specification: two registered users write articles over two *)
(* connections.                                                            *)

InitArticle ==
    /\ user = TwoUsers
    /\ article = {}
    /\ tag = {}
    /\ article_tag = {}
    /\ comment = {}
    /\ favorited_article = {}
    /\ follower = {}
    /\ next_id = [NoIds EXCEPT !.user = 2]
    /\ now = 0
    /\ req = [s \in Slots |-> Idle]

NextArticle ==
    \E s \in Slots :
        \/ create_article(s, AuthHeaders, {None})
        \/ update_article(s, AuthHeaders)
        \/ update_article_update(s)
        \/ delete_article(s, AuthHeaders)
        \/ delete_article_delete(s)
        \/ respond_get_article_by_id(s)

SpecArticle == InitArticle /\ [][NextArticle]_vars

-----------------------------------------------------------------------------
(* Claims about the article handlers *)

\* The connection whose request made the step.
Acted(s) == req'[s] # req[s] /\ req'[s].pc # "idle"

\* C1: create_article, update_article and delete_article are only for
\* authenticated users: whenever the article table changes, the step is
\* made by a request that carries a decoded token.
C1_WritesNeedToken ==
    [][article' # article =>
         \E s \in Slots : Acted(s) /\ (IsSome(req[s].token) \/ IsSome(req'[s].token))]_vars

\* A DELETE without a token was answered by the middleware while an article
\* was stored.
C1_Witness ==
    \E s \in Slots :
        /\ req[s].op = "delete_article"
        /\ req[s].pc = "done"
        /\ req[s].res.err = "TypedHeaderRejection"
        /\ article # {}

\* The step is the insert of create_article in slot s, and the slug it
\* inserts is the slug of a stored article.
C2_CreateTaken(s) ==
    /\ Free(s) /\ Acted(s)
    /\ req'[s].op = "create_article"
    /\ IsSome(req'[s].arg.author_id)
    /\ \E a \in article :
           a.slug = slugify(req'[s].arg.title \o simple(Unwrap(req'[s].arg.author_id)))

\* The step is the update of update_article in slot s, and the slug it sets
\* is the slug of another stored article.
C2_UpdateTaken(s) ==
    /\ At(s, "update_article", "update") /\ Acted(s)
    /\ IsSome(req[s].arg.input.title)
    /\ \E cur \in article : \E a \in article :
           /\ cur.id = req[s].loc.id
           /\ a.id # cur.id
           /\ a.slug = slugify(Unwrap(req[s].arg.input.title))

\* C2: the slug is a unique key: no two stored articles have the same slug,
\* and a create or update that would give an article the slug of another
\* one ends with the database error and leaves the articles as they were.
C2_SlugUniqueKey ==
    /\ [](\A a \in article : \A b \in article : a.slug = b.slug => a = b)
    /\ [][\A s \in Slots :
            (C2_CreateTaken(s) \/ C2_UpdateTaken(s)) =>
                (article' = article /\ req'[s].pc = "done"
                    /\ req'[s].res.err = "DbErr::Exec")]_vars

\* An update was rejected for its slug while two articles were stored.
C2_Witness ==
    \E s \in Slots :
        /\ req[s].op = "update_article"
        /\ req[s].pc = "done"
        /\ req[s].res.err = "DbErr::Exec"
        /\ Cardinality(article) = 2

-----------------------------------------------------------------------------
(* api::user *)

\* Table user (entities/user.rs): primary key id, email and username unique.
user_unique_id_only(rows) == Unique(rows, {"id"})

user_unique(rows) ==
    /\ Unique(rows, {"id"})
    /\ Unique(rows, {"email"})
    /\ Unique(rows, {"username"})

\* A string that is no PHC hash; hash_password(p) is the PHC string of p.
plain(p) == [hashed |-> FALSE, of |-> p]

\* middleware::auth::check_passwords: PasswordHash::new(real) parses the
\* stored string, which fails unless it is a PHC string, and the tested
\* password is verified against it.
check_passwords_compare(tested, real) == real.of = tested

check_passwords(tested, real) == real.hashed /\ real.of = tested

\* The fields of the requests
Emails == {<<"a">>, <<"b">>}
Usernames == {<<"a">>, <<"a", "b">>}
Passwords == {"p", "q"}

\* repo::user::get_user_by_email, get_user_by_id
get_user_by_email(email) ==
    LET found == {u \in user : u.email = email}
    IN  IF found = {} THEN None ELSE Some(CHOOSE u \in found : TRUE)

get_user_by_id(id) ==
    LET found == {u \in user : u.id = id}
    IN  IF found = {} THEN None ELSE Some(CHOOSE u \in found : TRUE)

\* UserWithToken of a user row: the row with create_token(id); the id stands
\* for both.
UserWithToken(u) == [id |-> u.id, email |-> u.email, username |-> u.username]

\* login_user: get_user_by_email, then check_passwords.
login_user(s, headers) ==
    \E hdr \in headers, email \in Emails, password \in Passwords :
        LET d == Dispatch("login_user", hdr)
            arg == [email |-> email, password |-> password]
            current_user == get_user_by_email(email)
        IN  /\ Free(s)
            /\ UNCHANGED <<tables, next_id, now>>
            /\ IF d.outcome # "handler"
               THEN Done(s, "login_user", d.token, arg, Refused(d))
               ELSE IF current_user = None
               THEN Done(s, "login_user", d.token, arg, Err("UserNotExist"))
               ELSE IF ~check_passwords(password, Unwrap(current_user).password)
               THEN Done(s, "login_user", d.token, arg, Err("WrongPass"))
               ELSE Done(s, "login_user", d.token, arg,
                         Ok([user |-> UserWithToken(Unwrap(current_user))]))

\* register_user up to repo::user::create_user: the password is hashed and
\* the row inserted with a fresh id; the insert is rejected by a unique key.
register_user(s, headers) ==
    \E hdr \in headers, email \in Emails, username \in Usernames, password \in Passwords :
        LET d == Dispatch("register_user", hdr)
            arg == [email |-> email, username |-> username]
            id == next_id.user + 1
            row == [id |-> id, email |-> email, username |-> username,
                    password |-> hash_password(password)]
        IN  /\ Free(s)
            /\ UNCHANGED <<article, tag, article_tag, comment, favorited_article, follower, now>>
            /\ IF d.outcome # "handler"
               THEN /\ Done(s, "register_user", d.token, arg, Refused(d))
                    /\ UNCHANGED <<user, next_id>>
               ELSE IF user_unique(user \cup {row})
                       THEN /\ next_id.user < MaxUsers
                            /\ user' = user \cup {row}
                            /\ next_id' = [next_id EXCEPT !.user = id]
                            /\ Goto(s, "register_user", "get_user", d.token, arg, [id |-> id])
                       ELSE /\ UNCHANGED <<user, next_id>>
                            /\ Done(s, "register_user", d.token, arg, Err("DbErr::Exec"))

\* register_user, repo::user::get_user_with_token_by_id of the inserted id.
register_user_get_user(s) ==
    /\ At(s, "register_user", "get_user")
    /\ LET r == req[s]
           current_user == get_user_by_id(r.loc.id)
       IN  IF current_user = None
           THEN Done(s, r.op, r.token, r.arg, Err("UserNotExist"))
           ELSE Done(s, r.op, r.token, r.arg,
                     Ok([user |-> UserWithToken(Unwrap(current_user))]))
    /\ UNCHANGED <<tables, next_id, now>>

\* The user object of an update request: one field is given.  The password
\* is any string, a PHC string among them.
UpdateUsers ==
    {[email |-> Some(e), username |-> None, password |-> None] : e \in Emails}
        \cup {[email |-> None, username |-> Some(n), password |-> None] : n \in Usernames}
        \cup {[email |-> None, username |-> None, password |-> Some(p)] :
                 p \in {plain("p"), hash_password("q")}}

\* update_user up to repo::user::get_user_by_id of the token's id.
update_user(s, headers) ==
    \E hdr \in headers, input \in UpdateUsers :
        LET d == Dispatch("update_user", hdr)
            arg == [input |-> input]
        IN  /\ Free(s)
            /\ UNCHANGED <<tables, next_id, now>>
            /\ IF d.outcome # "handler"
               THEN Done(s, "update_user", d.token, arg, Refused(d))
               ELSE IF get_user_by_id(Unwrap(d.token)) = None
               THEN Done(s, "update_user", d.token, arg, Err("UserNotExist"))
               ELSE Goto(s, "update_user", "update", d.token, arg,
                         [id |-> Unwrap(d.token)])

\* update_user, repo::user::update_user: UPDATE user SET the fields that
\* were given WHERE id = the token's id.  The password is stored as it came.
update_user_update(s) ==
    /\ At(s, "update_user", "update")
    /\ LET r == req[s]
           input == r.arg.input
           found == {u \in user : u.id = r.loc.id}
       IN  IF found = {}
           THEN /\ UNCHANGED user
                /\ Done(s, r.op, r.token, r.arg, Err("DbErr::RecordNotUpdated"))
           ELSE LET old == CHOOSE u \in found : TRUE
                    new == [id |-> old.id,
                            email |-> IF IsSome(input.email) THEN Unwrap(input.email)
                                      ELSE old.email,
                            username |-> IF IsSome(input.username) THEN Unwrap(input.username)
                                         ELSE old.username,
                            password |-> IF IsSome(input.password) THEN Unwrap(input.password)
                                         ELSE old.password]
                IN  IF user_unique((user \ {old}) \cup {new})
                    THEN /\ user' = (user \ {old}) \cup {new}
                         /\ Done(s, r.op, r.token, r.arg, Ok([user |-> UserWithToken(new)]))
                    ELSE /\ UNCHANGED user
                         /\ Done(s, r.op, r.token, r.arg, Err("DbErr::Exec"))
    /\ UNCHANGED <<article, tag, article_tag, comment, favorited_article, follower, next_id, now>>

-----------------------------------------------------------------------------
(* The user specification: users register, log in and change their fields  *)
(* over two connections.                                                   *)

InitUser ==
    /\ user = {}
    /\ article = {}
    /\ tag = {}
    /\ article_tag = {}
    /\ comment = {}
    /\ favorited_article = {}
    /\ follower = {}
    /\ next_id = NoIds
    /\ now = 0
    /\ req = [s \in Slots |-> Idle]

NextUser ==
    \E s \in Slots :
        \/ register_user(s, {NoHeader})
        \/ register_user_get_user(s)
        \/ login_user(s, {NoHeader})
        \/ update_user(s, StaleHeaders)
        \/ update_user_update(s)

SpecUser == InitUser /\ [][NextUser]_vars

-----------------------------------------------------------------------------
(* Claims about the user handlers *)

\* The step is the insert of register_user in slot s, and the email or the
\* username it inserts is the one of a stored user.
C3_RegisterTaken(s) ==
    /\ Free(s) /\ Acted(s)
    /\ req'[s].op = "register_user"
    /\ \E u \in user :
           u.email = req'[s].arg.email \/ u.username = req'[s].arg.username

\* C3: a user creation rejects a username or an email that already exists,
\* and after any register_user or update_user no two users share an email
\* or a username.
C3_UsersUnique ==
    /\ [](\A u1 \in user : \A u2 \in user :
            (u1.email = u2.email \/ u1.username = u2.username) => u1 = u2)
    /\ [][\A s \in Slots :
            C3_RegisterTaken(s) =>
                (user' = user /\ req'[s].pc = "done" /\ req'[s].res.err = "DbErr::Exec")]_vars

\* An update was rejected for its email or username while two users were
\* stored.
C3_Witness ==
    \E s \in Slots :
        /\ req[s].op = "update_user"
        /\ req[s].pc = "done"
        /\ req[s].res.err = "DbErr::Exec"
        /\ Cardinality(user) = 2

\* The step is login_user in slot s.
C5_Login(s) == Free(s) /\ Acted(s) /\ req'[s].op = "login_user"

\* C5: login_user returns the user and a token only when a user with the
\* given email exists and the given password verifies against the stored
\* hash; an unknown email fails with UserNotExist and a wrong password with
\* WrongPass.
C5_LoginVerifies ==
    [][\A s \in Slots :
         C5_Login(s) =>
             LET arg == req'[s].arg
                 res == req'[s].res
                 known == {u \in user : u.email = arg.email}
                 verified == {u \in known : u.password.hashed /\ u.password.of = arg.password}
             IN  /\ res.status = 200 =>
                        \E u \in verified : res.body.user.id = u.id
                 /\ known = {} => res.err = "UserNotExist"
                 /\ (known # {} /\ verified = {}) => res.err = "WrongPass"]_vars

\* A login with the very string that update_user stored as the password
\* failed with WrongPass: the stored string is no hash.
C5_Witness ==
    \E s \in Slots :
        /\ req[s].op = "login_user"
        /\ req[s].pc = "done"
        /\ req[s].res.err = "WrongPass"
        /\ \E u \in user :
               u.email = req[s].arg.email /\ u.password = plain(req[s].arg.password)

\* A login succeeded.
C5_WitnessOk ==
    \E s \in Slots :
        req[s].op = "login_user" /\ req[s].pc = "done" /\ req[s].res.status = 200

-----------------------------------------------------------------------------
(* api::article favorites, api::comment, api::profile *)

\* A favorited_article table without a primary key.
favorited_article_no_key(rows, row) == TRUE

\* Table favorited_article, primary key (article_id, user_id)
favorited_article_unique(rows, row) == row \notin rows

\* favorite_article and unfavorite_article up to
\* repo::article::get_article_model_by_slug.
favorite_article(s, op, headers) ==
    \E hdr \in headers, slug \in PathSlugs :
        LET d == Dispatch(op, hdr)
            arg == [slug |-> slug]
            finded == get_article_model_by_slug(slug)
        IN  /\ Free(s)
            /\ op \in {"favorite_article", "unfavorite_article"}
            /\ UNCHANGED <<tables, next_id, now>>
            /\ IF d.outcome # "handler"
               THEN Done(s, op, d.token, Nil, Refused(d))
               ELSE IF finded = None
               THEN Done(s, op, d.token, arg, Err("ArticleNotExist"))
               ELSE Goto(s, op, "write", d.token, arg, [id |-> Unwrap(finded).id])

\* favorite_article, repo::favorited_article::favorite_article: the insert of
\* (article id, token id), rejected by the primary key or a foreign key.
favorite_article_insert(s) ==
    /\ At(s, "favorite_article", "write")
    /\ LET r == req[s]
           row == [article_id |-> r.loc.id, user_id |-> Unwrap(r.token)]
       IN  IF favorited_article_unique(favorited_article, row) /\ favorited_article_fk(row)
           THEN /\ favorited_article' = favorited_article \cup {row}
                /\ Goto(s, r.op, "get_article", r.token, r.arg, r.loc)
           ELSE /\ UNCHANGED favorited_article
                /\ Done(s, r.op, r.token, r.arg, Err("DbErr::Exec"))
    /\ UNCHANGED <<user, article, tag, article_tag, comment, follower, next_id, now>>

\* unfavorite_article, repo::favorited_article::unfavorite_article: DELETE of
\* the row with this primary key; deleting no row is no error.
unfavorite_article_delete(s) ==
    /\ At(s, "unfavorite_article", "write")
    /\ LET r == req[s]
           row == [article_id |-> r.loc.id, user_id |-> Unwrap(r.token)]
       IN  /\ favorited_article' = favorited_article \ {row}
           /\ Goto(s, r.op, "get_article", r.token, r.arg, r.loc)
    /\ UNCHANGED <<user, article, tag, article_tag, comment, follower, next_id, now>>

\* create_comment up to repo::article::get_article_model_by_slug.
create_comment(s, headers) ==
    \E hdr \in headers, slug \in PathSlugs :
        LET d == Dispatch("create_comment", hdr)
            arg == [slug |-> slug]
            commented_article == get_article_model_by_slug(slug)
        IN  /\ Free(s)
            /\ UNCHANGED <<tables, next_id, now>>
            /\ IF d.outcome # "handler"
               THEN Done(s, "create_comment", d.token, Nil, Refused(d))
               ELSE IF commented_article = None
               THEN Done(s, "create_comment", d.token, arg, Err("ArticleNotExist"))
               ELSE Goto(s, "create_comment", "insert", d.token, arg,
                         [id |-> Unwrap(commented_article).id])

\* create_comment, repo::comment::insert_comment: the row gets a fresh id;
\* rejected by a foreign key.
create_comment_insert(s) ==
    /\ At(s, "create_comment", "insert")
    /\ next_id.comment < MaxComments
    /\ LET r == req[s]
           id == next_id.comment + 1
           row == [id |-> id, author_id |-> Unwrap(r.token), article_id |-> r.loc.id]
       IN  IF comment_fk(row)
           THEN /\ comment' = comment \cup {row}
                /\ next_id' = [next_id EXCEPT !.comment = id]
                /\ Goto(s, r.op, "get_comment", r.token, r.arg, [id |-> id])
           ELSE /\ UNCHANGED <<comment, next_id>>
                /\ Done(s, r.op, r.token, r.arg, Err("DbErr::Exec"))
    /\ UNCHANGED <<user, article, tag, article_tag, favorited_article, follower, now>>

\* create_comment, repo::comment::get_comment_by_id of the inserted id.
create_comment_get_comment(s) ==
    /\ At(s, "create_comment", "get_comment")
    /\ LET r == req[s]
           found == {c \in comment : c.id = r.loc.id}
       IN  IF found = {}
           THEN Done(s, r.op, r.token, r.arg, Err("CommentNotExist"))
           ELSE Done(s, r.op, r.token, r.arg, Ok([comment |-> r.loc.id]))
    /\ UNCHANGED <<tables, next_id, now>>

\* The comment id in the path of a request: a stored one, or one that is not.
PathCommentIds == {c.id : c \in comment} \cup {Null}

\* delete_comment: repo::comment::delete_comment by id, CommentNotExist when
\* no row was deleted.  The handler extracts no token.
delete_comment(s, headers) ==
    \E hdr \in headers, comment_id \in PathCommentIds :
        LET d == Dispatch("delete_comment", hdr)
            rows == {c \in comment : c.id = comment_id}
        IN  /\ Free(s)
            /\ UNCHANGED <<user, article, tag, article_tag, favorited_article, follower,
                           next_id, now>>
            /\ IF d.outcome # "handler"
               THEN /\ Done(s, "delete_comment", d.token, Nil, Refused(d))
                    /\ UNCHANGED comment
               ELSE /\ comment' = comment \ rows
                    /\ IF Cardinality(rows) > 0
                       THEN Done(s, "delete_comment", d.token, Nil, Ok(Nil))
                       ELSE Done(s, "delete_comment", d.token, Nil, Err("CommentNotExist"))

\* The username in the path of a request: a stored one, or one that is not.
NoName == <<"n", "o">>
PathUsernames == {u.username : u \in user} \cup {NoName}

\* repo::user::get_user_by_username
get_user_by_username(username) ==
    LET found == {u \in user : u.username = username}
    IN  IF found = {} THEN None ELSE Some(CHOOSE u \in found : TRUE)

\* repo::user::get_profile_by_username: the user of this name with
\* `following`.
get_profile_by_username(username, current_user_id) ==
    LET found == get_user_by_username(username)
    IN  IF found = None THEN None
        ELSE Some([id |-> Unwrap(found).id,
                   following |-> author_followed_by_current_user(current_user_id,
                                                                 Unwrap(found).id)])

\* follow_user and unfollow_user up to repo::user::get_user_by_username.
follow_user(s, op, headers) ==
    \E hdr \in headers, username \in PathUsernames :
        LET d == Dispatch(op, hdr)
            arg == [username |-> username]
            following_user == get_user_by_username(username)
        IN  /\ Free(s)
            /\ op \in {"follow_user", "unfollow_user"}
            /\ UNCHANGED <<tables, next_id, now>>
            /\ IF d.outcome # "handler"
               THEN Done(s, op, d.token, arg, Refused(d))
               ELSE IF following_user = None
               THEN Done(s, op, d.token, arg, Err("UserNotExist"))
               ELSE Goto(s, op, "write", d.token, arg, [id |-> Unwrap(following_user).id])

\* follow_user, repo::follower::create_follower: the insert of (user id,
\* token id), rejected by the primary key, the CHECK or a foreign key.
follow_user_create_follower(s) ==
    /\ At(s, "follow_user", "write")
    /\ LET r == req[s]
           row == [user_id |-> r.loc.id, follower_id |-> Unwrap(r.token)]
       IN  IF row \notin follower /\ follower_check(row) /\ follower_fk(row)
           THEN /\ follower' = follower \cup {row}
                /\ Goto(s, r.op, "get_profile", r.token, r.arg, r.loc)
           ELSE /\ UNCHANGED follower
                /\ Done(s, r.op, r.token, r.arg, Err("DbErr::Exec"))
    /\ UNCHANGED <<user, article, tag, article_tag, comment, favorited_article, next_id, now>>

\* unfollow_user, repo::follower::delete_follower
unfollow_user_delete_follower(s) ==
    /\ At(s, "unfollow_user", "write")
    /\ LET r == req[s]
           row == [user_id |-> r.loc.id, follower_id |-> Unwrap(r.token)]
       IN  /\ follower' = follower \ {row}
           /\ Goto(s, r.op, "get_profile", r.token, r.arg, r.loc)
    /\ UNCHANGED <<user, article, tag, article_tag, comment, favorited_article, next_id, now>>

\* The last statement of follow_user and unfollow_user:
\* repo::user::get_profile_by_username for the response.
respond_get_profile_by_username(s) ==
    /\ req[s].pc = "get_profile"
    /\ LET r == req[s]
           profile == get_profile_by_username(r.arg.username, r.token)
       IN  IF profile = None
           THEN Done(s, r.op, r.token, r.arg, Err("UserNotExist"))
           ELSE Done(s, r.op, r.token, r.arg, Ok([profile |-> Unwrap(profile)]))
    /\ UNCHANGED <<tables, next_id, now>>

-----------------------------------------------------------------------------
(* The relations specification: two users and a client with a stale token  *)
(* favorite, comment and delete one article and follow each other.         *)

OneArticle ==
    {[id |-> 1, slug |-> slugify(<<"a">> \o simple(1)), title |-> <<"a">>,
      author_id |-> 1, updated_at |-> 0]}

InitRelations ==
    /\ user = TwoUsers
    /\ article = OneArticle
    /\ tag = {}
    /\ article_tag = {}
    /\ comment = {}
    /\ favorited_article = {}
    /\ follower = {}
    /\ next_id = [NoIds EXCEPT !.user = 2, !.article = 1]
    /\ now = 0
    /\ req = [s \in Slots |-> Idle]

NextRelations ==
    \E s \in Slots :
        \/ favorite_article(s, "favorite_article", StaleHeaders)
        \/ favorite_article_insert(s)
        \/ respond_get_article_by_id(s)
        \/ create_comment(s, StaleHeaders)
        \/ create_comment_insert(s)
        \/ create_comment_get_comment(s)
        \/ delete_comment(s, AuthHeaders)
        \/ follow_user(s, "follow_user", StaleHeaders)
        \/ follow_user_create_follower(s)
        \/ respond_get_profile_by_username(s)
        \/ delete_article(s, AuthHeaders)
        \/ delete_article_delete(s)

SpecRelations == InitRelations /\ [][NextRelations]_vars

-----------------------------------------------------------------------------
(* The favorites specification: the two users write articles, favorite and *)
(* unfavorite them and delete them.                                        *)

NextFavorites ==
    \E s \in Slots :
        \/ create_article(s, AuthHeaders, {None})
        \/ favorite_article(s, "favorite_article", AuthHeaders)
        \/ favorite_article_insert(s)
        \/ favorite_article(s, "unfavorite_article", AuthHeaders)
        \/ unfavorite_article_delete(s)
        \/ respond_get_article_by_id(s)
        \/ delete_article(s, AuthHeaders)
        \/ delete_article_delete(s)

SpecFavorites == InitRelations /\ [][NextFavorites]_vars

-----------------------------------------------------------------------------
(* Claims about the relations *)

\* The step is the insert of a favorite, a comment or a follower row in slot
\* s, and the row names an article or a user that is not stored.
C4_InsertMissing(s) ==
    /\ Acted(s)
    /\ \/ /\ At(s, "favorite_article", "write") \/ At(s, "create_comment", "insert")
          /\ \/ \A a \in article : a.id # req[s].loc.id
             \/ \A u \in user : u.id # Unwrap(req[s].token)
       \/ /\ At(s, "follow_user", "write")
          /\ \/ \A u \in user : u.id # req[s].loc.id
             \/ \A u \in user : u.id # Unwrap(req[s].token)

\* C4: every comment and every favorite refers to a stored article and a
\* stored user, and every follower row to two stored users; an insert of a
\* row that names a missing article or user is rejected and stores nothing;
\* the delete of an article leaves no comment and no favorite of it.
C4_RowsRefer ==
    /\ [](/\ \A c \in comment :
                /\ \E a \in article : a.id = c.article_id
                /\ \E u \in user : u.id = c.author_id
          /\ \A f \in favorited_article :
                /\ \E a \in article : a.id = f.article_id
                /\ \E u \in user : u.id = f.user_id
          /\ \A f \in follower :
                /\ \E u \in user : u.id = f.user_id
                /\ \E u \in user : u.id = f.follower_id)
    /\ [][\A s \in Slots :
            C4_InsertMissing(s) =>
                /\ UNCHANGED tables
                /\ req'[s].pc = "done"
                /\ req'[s].res.err = "DbErr::Exec"]_vars
    /\ [][\A s \in Slots :
            (At(s, "delete_article", "delete") /\ Acted(s)) =>
                /\ \A c \in comment' : c.article_id # req[s].loc.id
                /\ \A f \in favorited_article' : f.article_id # req[s].loc.id]_vars

\* The insert of a comment was rejected: its article had been deleted after
\* the handler had read it.
C4_Witness ==
    \E s \in Slots :
        /\ req[s].op = "create_comment"
        /\ req[s].pc = "done"
        /\ req[s].res.err = "DbErr::Exec"
        /\ article = {}

\* The step is the read of the article for the response in slot s.
C10_Responds(s) == req[s].pc = "get_article" /\ Acted(s)

\* C10: the favorites_count of an article in a response is the number of
\* users that have the article favorited when it is read, whatever favorite
\* and unfavorite requests came before.
C10_FavoritesCount ==
    [][\A s \in Slots :
         C10_Responds(s) =>
             \A v \in req'[s].res.body.article :
                 v.favorites_count =
                     Cardinality({u \in user :
                         \E f \in favorited_article :
                             f.article_id = v.id /\ f.user_id = u.id})]_vars

\* An unfavorite was answered with the article, which another user still
\* has favorited.
C10_Witness ==
    \E s \in Slots :
        /\ req[s].op = "unfavorite_article"
        /\ req[s].pc = "done"
        /\ req[s].res.status = 200
        /\ \E v \in req[s].res.body.article : v.favorites_count = 1

-----------------------------------------------------------------------------
(* repo::article, the list queries *)

DEFAULT_PAGE_LIMIT == 20
DEFAULT_PAGE_OFFSET == 0

\* The LIKE operator of SQL: in the pattern '%' stands for any run of
\* characters and '_' for any one character; every other character stands
\* for itself.
RECURSIVE Like(_, _)
Like(pattern, s) ==
    IF pattern = <<>> THEN s = <<>>
    ELSE IF Head(pattern) = "%"
         THEN Like(Tail(pattern), s) \/ (s # <<>> /\ Like(pattern, Tail(s)))
    ELSE IF Head(pattern) = "_"
         THEN s # <<>> /\ Like(Tail(pattern), Tail(s))
    ELSE s # <<>> /\ Head(s) = Head(pattern) /\ Like(Tail(pattern), Tail(s))

\* repo::article::article_author: user.username LIKE name, on the author row
\* of the LEFT JOIN user; true without a name.
article_author(author_name, a) ==
    IF IsSome(author_name)
    THEN \E u \in user : u.id = a.author_id /\ Like(Unwrap(author_name), u.username)
    ELSE TRUE

\* repo::article::article_has_tag: article.id IN (SELECT article.id FROM
\* article LEFT JOIN article_tag LEFT JOIN tag WHERE tag.tag_name LIKE name);
\* true without a name.
article_has_tag(tag_name, a) ==
    IF IsSome(tag_name)
    THEN a.id \in {b.id : b \in {b \in article :
                      \E at \in article_tag : \E t \in tag :
                          /\ at.article_id = b.id
                          /\ at.tag_id = t.id
                          /\ Like(Unwrap(tag_name), t.tag_name)}}
    ELSE TRUE

\* repo::article::article_liked_by_user: article.id IN (SELECT article.id FROM
\* article LEFT JOIN favorited_article LEFT JOIN user WHERE user.username
\* LIKE name); true without a name.
article_liked_by_user(user_name, a) ==
    IF IsSome(user_name)
    THEN a.id \in {b.id : b \in {b \in article :
                      \E f \in favorited_article : \E u \in user :
                          /\ f.article_id = b.id
                          /\ f.user_id = u.id
                          /\ Like(Unwrap(user_name), u.username)}}
    ELSE TRUE

\* ORDER BY article.updated_at DESC: every order of the rows in which no row
\* comes before a more recent one; rows of one updated_at come in any order.
RECURSIVE order_by_desc(_)
order_by_desc(rows) ==
    IF rows = {} THEN {<<>>}
    ELSE LET top == {a \in rows : \A b \in rows : b.updated_at <= a.updated_at}
         IN  UNION {{<<a>> \o rest : rest \in order_by_desc(rows \ {a})} : a \in top}

\* .limit(limit.or(Some(DEFAULT_PAGE_LIMIT))).offset(offset.or(Some(
\* DEFAULT_PAGE_OFFSET))): the rows after the first `offset`, `limit` at most.
limit_offset(rows, limit, offset) ==
    LET lm == IF IsSome(limit) THEN Unwrap(limit) ELSE DEFAULT_PAGE_LIMIT
        off == IF IsSome(offset) THEN Unwrap(offset) ELSE DEFAULT_PAGE_OFFSET
    IN  IF off >= Len(rows) \/ lm = 0 THEN <<>>
        ELSE SubSeq(rows, off + 1, Min(Len(rows), off + lm))

\* repo::article::get_articles_with_filters: the results the query can give,
\* one per order of the rows that share an updated_at.  The GROUP BY leaves
\* one row per article.
get_articles_with_filters(tag_name, author_name, user_who_liked_it, limit, offset, current_user_id) ==
    LET found == {a \in article : /\ article_author(author_name, a)
                                  /\ article_has_tag(tag_name, a)
                                  /\ article_liked_by_user(user_who_liked_it, a)}
        pages == {limit_offset(rows, limit, offset) : rows \in order_by_desc(found)}
    IN  {[i \in 1..Len(p) |-> ArticleWithAuthor(p[i], current_user_id)] : p \in pages}

\* repo::article::get_articles_feed: the articles whose author the current
\* user follows, `following` set to true.
get_articles_feed_unfiltered(limit, offset, current_user_id) ==
    LET pages == {limit_offset(rows, limit, offset) : rows \in order_by_desc(article)}
    IN  {[i \in 1..Len(p) |->
            [ArticleWithAuthor(p[i], Some(current_user_id)) EXCEPT !.following = TRUE]]
         : p \in pages}

get_articles_feed(limit, offset, current_user_id) ==
    LET found == {a \in article :
                     author_followed_by_current_user(Some(current_user_id), a.author_id)}
        pages == {limit_offset(rows, limit, offset) : rows \in order_by_desc(found)}
    IN  {[i \in 1..Len(p) |->
            [ArticleWithAuthor(p[i], Some(current_user_id)) EXCEPT !.following = TRUE]]
         : p \in pages}

\* repo::article::get_articles_count: COUNT of the articles that pass the
\* three filters and, with a current user, the filter of followed authors.
get_articles_count(tag_name, author_name, user_who_liked_it, current_user_id) ==
    Cardinality({a \in article :
        /\ article_author(author_name, a)
        /\ article_has_tag(tag_name, a)
        /\ article_liked_by_user(user_who_liked_it, a)
        /\ IF IsSome(current_user_id)
           THEN author_followed_by_current_user(current_user_id, a.author_id)
           ELSE TRUE})

-----------------------------------------------------------------------------
(* api::article, the handlers that list *)

\* str::parse::<u64>: the value of a string of decimal digits, which may
\* follow one '+'; no value for any other string.
DigitValue(c) ==
    CASE c = "0" -> 0 [] c = "1" -> 1 [] c = "2" -> 2 [] c = "3" -> 3 [] OTHER -> 9

RECURSIVE digits_value(_, _)
digits_value(str, acc) ==
    IF str = <<>> THEN acc
    ELSE digits_value(Tail(str), 10 * acc + DigitValue(Head(str)))

parse_u64(str) ==
    LET digits == IF str # <<>> /\ Head(str) = "+" THEN Tail(str) ELSE str
    IN  IF digits = <<>> \/ \E i \in 1..Len(digits) : digits[i] \notin Digit
        THEN None
        ELSE Some(digits_value(digits, 0))

\* params.get(name).filter(|str| !str.is_empty())
non_empty_param(param) == {str \in param : str # <<>>}

\* params.get(name).map(|lm| lm.parse::<u64>()).filter(|res| res.is_ok())
parse_param(param) == IF IsSome(param) THEN parse_u64(Unwrap(param)) ELSE None

\* The query string without a parameter
NoParams == [tag |-> None, author |-> None, favorited |-> None,
             limit |-> None, offset |-> None]

\* list_articles up to repo::article::get_articles_with_filters
list_articles(s, headers, queries) ==
    \E hdr \in headers, params \in queries :
        LET d == Dispatch("list_articles", hdr)
            tag_name == non_empty_param(params.tag)
            author_name == non_empty_param(params.author)
            user_who_liked_it == non_empty_param(params.favorited)
            limit == parse_param(params.limit)
            offset == parse_param(params.offset)
        IN  /\ Free(s)
            /\ UNCHANGED <<tables, next_id, now>>
            /\ IF d.outcome # "handler"
               THEN Done(s, "list_articles", d.token, params, Refused(d))
               ELSE \E articles \in get_articles_with_filters(
                                        tag_name, author_name, user_who_liked_it,
                                        limit, offset, d.token) :
                        Goto(s, "list_articles", "count", d.token, params,
                             [articles |-> articles])

\* list_articles, repo::article::get_articles_count with the same filters and
\* no current user, then the response.
list_articles_count(s) ==
    /\ At(s, "list_articles", "count")
    /\ LET r == req[s]
           articles_count == get_articles_count(non_empty_param(r.arg.tag),
                                                non_empty_param(r.arg.author),
                                                non_empty_param(r.arg.favorited),
                                                None)
       IN  Done(s, r.op, r.token, r.arg,
                Ok([articles |-> r.loc.articles, articles_count |-> articles_count]))
    /\ UNCHANGED <<tables, next_id, now>>

\* feed_articles up to repo::article::get_articles_feed
feed_articles(s, headers, queries) ==
    \E hdr \in headers, params \in queries :
        LET d == Dispatch("feed_articles", hdr)
            limit == parse_param(params.limit)
            offset == parse_param(params.offset)
        IN  /\ Free(s)
            /\ UNCHANGED <<tables, next_id, now>>
            /\ IF d.outcome # "handler"
               THEN Done(s, "feed_articles", d.token, params, Refused(d))
               ELSE \E articles \in get_articles_feed(limit, offset, Unwrap(d.token)) :
                        Goto(s, "feed_articles", "count", d.token, params,
                             [articles |-> articles])

\* feed_articles, repo::article::get_articles_count of the current user's
\* followed authors, then the response.
feed_articles_count(s) ==
    /\ At(s, "feed_articles", "count")
    /\ LET r == req[s]
           articles_count == get_articles_count(None, None, None, r.token)
       IN  Done(s, r.op, r.token, r.arg,
                Ok([articles |-> r.loc.articles, articles_count |-> articles_count]))
    /\ UNCHANGED <<tables, next_id, now>>

-----------------------------------------------------------------------------
(* The stored rows of the listing specifications: article i is written by  *)
(* user "a" when i is odd and by user "ab" when i is even, carries the tag *)
(* "x" when i is odd and "xy" when it is even, and is the favorite of the  *)
(* user who did not write it.                                              *)

ListTitle(i) == [k \in 1..((i + 1) \div 2) |-> "a"]

\* tied: the articles 2k-1 and 2k were updated at the same time.
ListArticle(i, tied) ==
    LET author_id == ((i - 1) % 2) + 1
    IN  [id |-> i,
         slug |-> slugify(ListTitle(i) \o simple(author_id)),
         title |-> ListTitle(i),
         author_id |-> author_id,
         updated_at |-> IF tied THEN (i + 1) \div 2 ELSE i]

ListArticles(n, tied) == {ListArticle(i, tied) : i \in 1..n}

ListTags == {[id |-> 1, tag_name |-> <<"x">>], [id |-> 2, tag_name |-> <<"x", "y">>]}

ListArticleTags(n) == {[article_id |-> i, tag_id |-> ((i - 1) % 2) + 1] : i \in 1..n}

ListFavorites(n) == {[article_id |-> i, user_id |-> (i % 2) + 1] : i \in 1..n}

\* The tables hold the first n of these articles.
ListTables(n, tied) ==
    /\ user = TwoUsers
    /\ article = ListArticles(n, tied)
    /\ tag = ListTags
    /\ article_tag = ListArticleTags(n)
    /\ comment = {}
    /\ favorited_article = ListFavorites(n)
    /\ next_id = [NoIds EXCEPT !.user = 2, !.article = n, !.tag = 2]
    /\ req = [s \in Slots |-> Idle]

-----------------------------------------------------------------------------
(* The list specification: list requests with filters, while the two users *)
(* write and delete articles.                                              *)

\* The query strings: no parameter, one filter (an empty name, a name, a
\* name with '%' or '_'), and all three filters.
ListQueries ==
    {NoParams}
    \cup {[NoParams EXCEPT !.tag = Some(n)] : n \in {<<>>, <<"x">>, <<"x", "%">>}}
    \cup {[NoParams EXCEPT !.author = Some(n)] : n \in {<<"a">>, <<"a", "_">>}}
    \cup {[NoParams EXCEPT !.favorited = Some(n)] : n \in {<<"a", "b">>, <<"%">>}}
    \cup {[NoParams EXCEPT !.author = Some(<<"a">>), !.limit = Some(<<"0">>)],
          [NoParams EXCEPT !.tag = Some(<<"x">>), !.offset = Some(<<"1">>)],
          [NoParams EXCEPT !.tag = Some(<<"x">>), !.author = Some(<<"a">>),
                           !.favorited = Some(<<"a", "b">>), !.limit = Some(<<"1">>)]}

InitList ==
    /\ \E n \in 0..MaxListArticles : ListTables(n, FALSE)
    /\ follower = {}
    /\ now \in 0..MaxTime

NextList ==
    \E s \in Slots :
        \/ list_articles(s, {NoHeader}, ListQueries)
        \/ list_articles_count(s)
        \/ create_article(s, AuthHeaders, {None})
        \/ respond_get_article_by_id(s)
        \/ delete_article(s, AuthHeaders)
        \/ delete_article_delete(s)

SpecList == InitList /\ [][NextList]_vars

-----------------------------------------------------------------------------
(* The page specification: list requests with limit and offset over stored *)
(* articles, more of them than DEFAULT_PAGE_LIMIT among them.              *)

PageQueries ==
    {[NoParams EXCEPT !.author = a, !.limit = l, !.offset = o] :
        a \in {None, Some(<<"a">>), Some(<<"a", "%">>)},
        l \in {None, Some(<<"0">>), Some(<<"+", "1">>), Some(<<"x">>)},
        o \in {None, Some(<<"1">>), Some(<<"-", "1">>)}}

InitPage ==
    /\ \/ \E n \in 0..MaxListArticles, tied \in BOOLEAN : ListTables(n, tied)
       \/ ListTables(DEFAULT_PAGE_LIMIT + 1, FALSE)
    /\ follower = {}
    /\ now = 0

NextPage ==
    \E s \in Slots :
        \/ list_articles(s, {NoHeader}, PageQueries)
        \/ list_articles_count(s)

SpecPage == InitPage /\ [][NextPage]_vars

-----------------------------------------------------------------------------
(* Claims about list_articles *)

\* The step is the query of list_articles in slot s; its result is
\* req'[s].loc.articles.
ListStep(s) ==
    /\ Free(s) /\ Acted(s)
    /\ req'[s].op = "list_articles"
    /\ req'[s].pc = "count"

\* The step is the count of list_articles in slot s, which ends the request.
CountStep(s) == At(s, "list_articles", "count") /\ Acted(s)

\* A filter parameter is supplied: it is given and it is not empty.
Supplied(param) == IsSome(param) /\ Unwrap(param) # <<>>

\* The article meets the filters of the query string: it carries the tag
\* named by `tag`, was written by the user named by `author` and is a
\* favorite of the user named by `favorited`, for each one that is supplied.
MeetsFilters(params, a) ==
    /\ Supplied(params.tag) =>
           \E t \in tag : /\ t.tag_name = Unwrap(params.tag)
                          /\ [article_id |-> a.id, tag_id |-> t.id] \in article_tag
    /\ Supplied(params.author) =>
           \E u \in user : /\ u.username = Unwrap(params.author)
                           /\ a.author_id = u.id
    /\ Supplied(params.favorited) =>
           \E u \in user : /\ u.username = Unwrap(params.favorited)
                           /\ [article_id |-> a.id, user_id |-> u.id] \in favorited_article

\* None of the supplied names holds a character that LIKE reads as a wildcard.
PlainNames(params) ==
    \A param \in {params.tag, params.author, params.favorited} :
        \A name \in param : \A i \in 1..Len(name) : name[i] \notin {"%", "_"}

\* What C6 says of the result `returned` of a query with `params`.
FilteredByName(params, returned) ==
    LET matching == {a \in article : MeetsFilters(params, a)}
    IN  /\ \A i \in DOMAIN returned : \E a \in matching : a.id = returned[i].id
        /\ (/\ params.limit = None
            /\ params.offset = None
            /\ Cardinality(matching) <= 20) =>
               \A a \in matching : \E i \in DOMAIN returned : returned[i].id = a.id

\* C6: list_articles filters by tag name, author name and the user who liked
\* the article: every returned article carries the tag named by `tag`, was
\* written by the user named by `author` and is a favorite of the user named
\* by `favorited`, for each parameter that is supplied, and no article that
\* meets all supplied filters is left out of the matching set (a request
\* without limit and offset returns all of them, up to the default limit).
C6_FiltersByName ==
    [][\A s \in Slots :
         ListStep(s) => FilteredByName(req'[s].arg, req'[s].loc.articles)]_vars

\* The same for the requests whose names hold neither '%' nor '_'.
C6_FiltersByPlainName ==
    [][\A s \in Slots :
         (ListStep(s) /\ PlainNames(req'[s].arg)) =>
             FilteredByName(req'[s].arg, req'[s].loc.articles)]_vars

\* A list request with a name that holds a wildcard was answered with an
\* article, while no stored tag or user has that name.
C6_Witness ==
    \E s \in Slots :
        /\ req[s].op = "list_articles"
        /\ req[s].pc = "done"
        /\ ~PlainNames(req[s].arg)
        /\ req[s].res.body.articles # <<>>
        /\ \A a \in article : ~MeetsFilters(req[s].arg, a)


\* The number a limit or offset parameter gives, `default` when it gives none.
GivenNumber(param, default) ==
    IF IsSome(parse_param(param)) THEN Unwrap(parse_param(param)) ELSE default

\* `returned` is the page of the articles `matching`: most recent first,
\* after the first `offset` of them, `limit` of them at most.  Articles of
\* one updated_at may stand in any order, so the skipped ones are told by
\* their number and by being no older than the first one returned.
PageOf(matching, returned, limit, offset) ==
    LET ids == {returned[i].id : i \in DOMAIN returned}
        rest == {a \in matching : a.id \notin ids}
        n == Len(returned)
    IN  /\ \A i \in DOMAIN returned : \A j \in DOMAIN returned :
               i < j => /\ returned[i].updated_at >= returned[j].updated_at
                        /\ returned[i].id # returned[j].id
        /\ \A i \in DOMAIN returned :
               \E a \in matching : /\ a.id = returned[i].id
                                   /\ a.updated_at = returned[i].updated_at
        /\ n = Min(limit, Max(0, Cardinality(matching) - offset))
        /\ n > 0 =>
               LET first == returned[1].updated_at
                   last == returned[n].updated_at
                   before == {a \in rest : a.updated_at > first}
                   ties == {a \in rest : a.updated_at = first}
               IN  /\ Cardinality(before) <= offset
                   /\ offset <= Cardinality(before) + Cardinality(ties)
                   /\ first > last => offset = Cardinality(before) + Cardinality(ties)
                   /\ \A a \in rest : ~(last < a.updated_at /\ a.updated_at < first)

\* C7: list_articles returns the matching articles ordered most recent first
\* (descending updated_at), skipping the first `offset` of them (0 when not
\* given) and returning at most `limit` of them (20 when not given); a limit
\* of 0 returns no articles.
C7_Paged ==
    [][\A s \in Slots :
         ListStep(s) =>
             LET params == req'[s].arg
             IN  PageOf({a \in article : MeetsFilters(params, a)},
                        req'[s].loc.articles,
                        GivenNumber(params.limit, 20),
                        GivenNumber(params.offset, 0))]_vars

\* The same for the requests whose names hold neither '%' nor '_'.
C7_PagedPlainNames ==
    [][\A s \in Slots :
         (ListStep(s) /\ PlainNames(req'[s].arg)) =>
             LET params == req'[s].arg
             IN  PageOf({a \in article : MeetsFilters(params, a)},
                        req'[s].loc.articles,
                        GivenNumber(params.limit, 20),
                        GivenNumber(params.offset, 0))]_vars

\* A list request with author=a%, limit 1 and offset 1 was answered with one
\* article out of more than DEFAULT_PAGE_LIMIT stored ones, none of them
\* written by a user of that name.
C7_Witness ==
    \E s \in Slots :
        /\ req[s].op = "list_articles"
        /\ req[s].pc = "done"
        /\ req[s].arg.author = Some(<<"a", "%">>)
        /\ GivenNumber(req[s].arg.limit, 20) = 1
        /\ GivenNumber(req[s].arg.offset, 0) = 1
        /\ Len(req[s].res.body.articles) = 1
        /\ Cardinality(article) > 20

\* A list request without limit and offset was answered with 20 articles
\* out of more stored ones.
C7_WitnessDefault ==
    \E s \in Slots :
        /\ req[s].op = "list_articles"
        /\ req[s].pc = "done"
        /\ req[s].arg.limit = None
        /\ Len(req[s].res.body.articles) = 20
        /\ req[s].res.body.articles_count > 20


\* What C8 says of the articles_count that the count of a request with
\* `params` gives.
CountsMatching(params, articles_count) ==
    articles_count = Cardinality({a \in article : MeetsFilters(params, a)})

\* C8: the articlesCount returned by list_articles equals the total number
\* of stored articles that match the supplied tag, author and favorited
\* filters (the articles stored when they are counted), independent of limit
\* and offset, also while other requests create or delete articles.
C8_CountsMatching ==
    [][\A s \in Slots :
         CountStep(s) =>
             CountsMatching(req[s].arg, req'[s].res.body.articles_count)]_vars

\* The same for the requests whose names hold neither '%' nor '_'.
C8_CountsMatchingPlainNames ==
    [][\A s \in Slots :
         (CountStep(s) /\ PlainNames(req[s].arg)) =>
             CountsMatching(req[s].arg, req'[s].res.body.articles_count)]_vars

\* A list request with a name that holds a wildcard was answered with a
\* count above 0, while no stored article meets its filters.
C8_Witness ==
    \E s \in Slots :
        /\ req[s].op = "list_articles"
        /\ req[s].pc = "done"
        /\ ~PlainNames(req[s].arg)
        /\ req[s].res.body.articles_count > 0
        /\ \A a \in article : ~MeetsFilters(req[s].arg, a)

\* A list request with limit 0 was answered with no article and a count of
\* 1, the article written after the request had read its page.
C8_WitnessConcurrent ==
    \E s \in Slots :
        /\ req[s].op = "list_articles"
        /\ req[s].pc = "done"
        /\ req[s].arg.limit = Some(<<"0">>)
        /\ req[s].res.body.articles = <<>>
        /\ req[s].res.body.articles_count = 1
        /\ \E a \in article : a.updated_at = 0


-----------------------------------------------------------------------------
(* The feed specification: the two users follow and unfollow each other    *)
(* and read their feeds.                                                   *)

FeedQueries ==
    {[NoParams EXCEPT !.limit = l, !.offset = o] :
        l \in {None, Some(<<"0">>), Some(<<"+", "1">>)},
        o \in {None, Some(<<"1">>)}}

InitFeed ==
    /\ \E n \in 0..MaxListArticles, tied \in BOOLEAN : ListTables(n, tied)
    /\ follower = {}
    /\ now = 0

NextFeed ==
    \E s \in Slots :
        \/ feed_articles(s, AuthHeaders, FeedQueries)
        \/ feed_articles_count(s)
        \/ follow_user(s, "follow_user", AuthHeaders)
        \/ follow_user_create_follower(s)
        \/ follow_user(s, "unfollow_user", AuthHeaders)
        \/ unfollow_user_delete_follower(s)
        \/ respond_get_profile_by_username(s)

SpecFeed == InitFeed /\ [][NextFeed]_vars

-----------------------------------------------------------------------------
(* Claims about feed_articles *)

\* The step is the query of feed_articles in slot s.
FeedStep(s) ==
    /\ Free(s) /\ Acted(s)
    /\ req'[s].op = "feed_articles"
    /\ req'[s].pc = "count"

\* The step is the count of feed_articles in slot s, which ends the request.
FeedCountStep(s) == At(s, "feed_articles", "count") /\ Acted(s)

\* The articles written by the users that user id follows.
ByFollowed(id) ==
    {a \in article :
        \E f \in follower : f.follower_id = id /\ f.user_id = a.author_id}

\* C9: feed_articles returns exactly the articles created by users the
\* current user follows, within the requested page, and no articles for a
\* user who follows nobody; its articlesCount is the total number of
\* articles by followed users.
C9_FeedOfFollowed ==
    /\ [][\A s \in Slots :
            FeedStep(s) =>
                LET id == Unwrap(req'[s].token)
                    params == req'[s].arg
                    returned == req'[s].loc.articles
                IN  /\ PageOf(ByFollowed(id), returned,
                              GivenNumber(params.limit, 20),
                              GivenNumber(params.offset, 0))
                    /\ (\A f \in follower : f.follower_id # id) => returned = <<>>]_vars
    /\ [][\A s \in Slots :
            FeedCountStep(s) =>
                req'[s].res.body.articles_count =
                    Cardinality(ByFollowed(Unwrap(req[s].token)))]_vars

\* A feed was answered with an article and with a count below the number of
\* stored articles: the user follows one author and not the other.
C9_Witness ==
    \E s \in Slots :
        /\ req[s].op = "feed_articles"
        /\ req[s].pc = "done"
        /\ req[s].res.status = 200
        /\ req[s].res.body.articles # <<>>
        /\ req[s].res.body.articles_count < Cardinality(article)

-----------------------------------------------------------------------------
(* api::article::get_article *)

\* repo::article::get_article_by_slug
get_article_by_slug(slug, current_user_id) ==
    LET found == {a \in article : a.slug = slug}
    IN  IF found = {} THEN None
        ELSE Some(ArticleWithAuthor(CHOOSE a \in found : TRUE, current_user_id))

\* get_article: repo::article::get_article_by_slug with the id of the token,
\* if there is one; the response holds the article or null.  The request is
\* kept as the arguments of that call.
get_article(s, headers) ==
    \E hdr \in headers, slug \in PathSlugs :
        LET d == Dispatch("get_article", hdr)
            arg == [slug |-> slug, current_user_id |-> d.token]
        IN  /\ Free(s)
            /\ UNCHANGED <<tables, next_id, now>>
            /\ IF d.outcome # "handler"
               THEN Done(s, "get_article", d.token, arg, Refused(d))
               ELSE Done(s, "get_article", d.token, arg,
                         Ok([article |-> get_article_by_slug(slug, d.token)]))

-----------------------------------------------------------------------------
(* The flags specification: the two users favorite and unfavorite the      *)
(* stored articles and read them one by one, in lists and in their feeds;  *)
(* user "ab" follows user "a".                                             *)

InitFlags ==
    /\ ListTables(MaxFlagArticles, FALSE)
    /\ follower = {[user_id |-> 1, follower_id |-> 2]}
    /\ now = 0

NextFlags ==
    \E s \in Slots :
        \/ favorite_article(s, "favorite_article", AuthHeaders)
        \/ favorite_article_insert(s)
        \/ favorite_article(s, "unfavorite_article", AuthHeaders)
        \/ unfavorite_article_delete(s)
        \/ respond_get_article_by_id(s)
        \/ get_article(s, AuthHeaders)
        \/ list_articles(s, AuthHeaders, {NoParams})
        \/ list_articles_count(s)
        \/ feed_articles(s, AuthHeaders, {NoParams})
        \/ feed_articles_count(s)

SpecFlags == InitFlags /\ [][NextFlags]_vars

-----------------------------------------------------------------------------
(* Claims about the flags of the returned articles *)

\* The articles that the step of slot s reads for its response, and the id
\* of the token of the request (none for a request without a token).
ReadArticles(s) ==
    IF ~Acted(s) THEN {}
    ELSE IF req'[s].pc = "count" /\ Free(s)
         THEN {req'[s].loc.articles[i] : i \in DOMAIN req'[s].loc.articles}
    ELSE IF req'[s].pc = "done" /\ req'[s].res.status = 200
            /\ (req[s].pc = "get_article" \/ req'[s].op = "get_article")
         THEN req'[s].res.body.article
    ELSE {}

Requester(s) ==
    IF req'[s].op = "get_article" THEN req'[s].arg.current_user_id
    ELSE IF req'[s].pc = "count" THEN req'[s].token
    ELSE req[s].token

\* C11: the `favorited` flag of a returned article is true exactly when the
\* requesting user has that article favorited when it is read, and it is
\* false for a request without a token.
C11_FavoritedFlag ==
    [][\A s \in Slots : \A v \in ReadArticles(s) :
         /\ v.favorited <=>
                \E id \in Requester(s) :
                    [article_id |-> v.id, user_id |-> id] \in favorited_article
         /\ Requester(s) = None => ~v.favorited]_vars

\* A feed was answered with an article that is a favorite of the requester
\* and of the other user.
C11_Witness ==
    \E s \in Slots :
        /\ req[s].op = "feed_articles"
        /\ req[s].pc = "done"
        /\ req[s].res.status = 200
        /\ \E i \in DOMAIN req[s].res.body.articles :
               /\ req[s].res.body.articles[i].favorited
               /\ req[s].res.body.articles[i].favorites_count = 2

\* An article was read by a request without a token while it is a favorite
\* of a user.
C11_WitnessAnonymous ==
    \E s \in Slots :
        /\ req[s].op = "get_article"
        /\ req[s].pc = "done"
        /\ req[s].arg.current_user_id = None
        /\ \E v \in req[s].res.body.article :
               ~v.favorited /\ \E f \in favorited_article : f.article_id = v.id

-----------------------------------------------------------------------------
(* api::profile::get_profile *)

\* get_profile: repo::user::get_profile_by_username with the id of the token,
\* if there is one.  The request is kept as the arguments of that call.
get_profile(s, headers) ==
    \E hdr \in headers, username \in PathUsernames :
        LET d == Dispatch("get_profile", hdr)
            arg == [username |-> username, current_user_id |-> d.token]
            profile == get_profile_by_username(username, d.token)
        IN  /\ Free(s)
            /\ UNCHANGED <<tables, next_id, now>>
            /\ IF d.outcome # "handler"
               THEN Done(s, "get_profile", d.token, arg, Refused(d))
               ELSE IF profile = None
               THEN Done(s, "get_profile", d.token, arg, Err("UserNotExist"))
               ELSE Done(s, "get_profile", d.token, arg, Ok([profile |-> Unwrap(profile)]))

-----------------------------------------------------------------------------
(* The profile specification: the two users and a client with a stale      *)
(* token follow and unfollow users and read profiles.                      *)

InitProfile ==
    /\ ListTables(0, FALSE)
    /\ follower = {}
    /\ now = 0

NextProfile ==
    \E s \in Slots :
        \/ get_profile(s, StaleHeaders)
        \/ follow_user(s, "follow_user", StaleHeaders)
        \/ follow_user_create_follower(s)
        \/ follow_user(s, "unfollow_user", StaleHeaders)
        \/ unfollow_user_delete_follower(s)
        \/ respond_get_profile_by_username(s)

SpecProfile == InitProfile /\ [][NextProfile]_vars

-----------------------------------------------------------------------------
(* Claims about profiles *)

\* The step of slot s answers with a profile; ProfileRequester is the id of
\* the token of that request, none for a request without one.
ProfileStep(s) ==
    /\ Acted(s)
    /\ req'[s].pc = "done"
    /\ req'[s].res.status = 200
    /\ req'[s].op \in {"get_profile", "follow_user", "unfollow_user"}

ProfileRequester(s) ==
    IF req'[s].op = "get_profile" THEN req'[s].arg.current_user_id ELSE req[s].token

\* The step of slot s is the write of a follow (an unfollow) that succeeds.
FollowWrite(s) ==
    At(s, "follow_user", "write") /\ Acted(s) /\ req'[s].pc = "get_profile"

UnfollowWrite(s) ==
    At(s, "unfollow_user", "write") /\ Acted(s) /\ req'[s].pc = "get_profile"

\* The follower row that the write of slot s is about.
WrittenRow(s) == [user_id |-> req[s].loc.id, follower_id |-> Unwrap(req[s].token)]

\* C12: the `following` flag of a profile tells whether the requester
\* follows that user.  Nobody follows anybody at the start; a follower row
\* is there after a successful follow of that user by that requester and is
\* not there after a successful unfollow, and nothing else changes it, so
\* the row is there exactly when the most recent successful follow or
\* unfollow was a follow; the flag of every returned profile is true exactly
\* when the row of the requester is there, and false without a token.
C12_FollowingFlag ==
    /\ [][\A s \in Slots :
            /\ FollowWrite(s) => WrittenRow(s) \in follower'
            /\ UnfollowWrite(s) => WrittenRow(s) \notin follower']_vars
    /\ [][\A row \in (follower' \ follower) \cup (follower \ follower') :
            \E s \in Slots :
                /\ IF row \in follower' THEN FollowWrite(s) ELSE UnfollowWrite(s)
                /\ WrittenRow(s) = row]_vars
    /\ [][\A s \in Slots :
            ProfileStep(s) =>
                LET profile == req'[s].res.body.profile
                IN  /\ profile.following <=>
                           \E id \in ProfileRequester(s) :
                               [user_id |-> profile.id, follower_id |-> id] \in follower
                    /\ ProfileRequester(s) = None => ~profile.following]_vars

\* The profile of a user was read with `following` false by a user they
\* follow, while the reader does not follow them.
C12_Witness ==
    \E s \in Slots :
        /\ req[s].op = "get_profile"
        /\ req[s].pc = "done"
        /\ req[s].res.status = 200
        /\ ~req[s].res.body.profile.following
        /\ \E id \in req[s].arg.current_user_id :
               /\ [user_id |-> id, follower_id |-> req[s].res.body.profile.id] \in follower
               /\ [user_id |-> req[s].res.body.profile.id, follower_id |-> id] \notin follower

\* A follow was answered with `following` false: the same user's unfollow
\* ran between the insert and the read of the profile.
C12_WitnessRace ==
    \E s \in Slots :
        /\ req[s].op = "follow_user"
        /\ req[s].pc = "done"
        /\ req[s].res.status = 200
        /\ ~req[s].res.body.profile.following

-----------------------------------------------------------------------------
(* Requests that name an article or a user that is not stored.             *)

\* repo::comment::get_comments_by_article_id: the comments of the article,
\* each with `following` of its author.
get_comments_by_article_id(article_id, current_user_id) ==
    {[id |-> c.id, author_id |-> c.author_id,
      following |-> author_followed_by_current_user(current_user_id, c.author_id)] :
        c \in {x \in comment : x.article_id = article_id}}

\* list_comments up to repo::article::get_article_model_by_slug.
list_comments(s, headers) ==
    \E hdr \in headers, slug \in PathSlugs :
        LET d == Dispatch("list_comments", hdr)
            arg == [slug |-> slug, current_user_id |-> d.token]
            article_found == get_article_model_by_slug(slug)
        IN  /\ Free(s)
            /\ UNCHANGED <<tables, next_id, now>>
            /\ IF d.outcome # "handler"
               THEN Done(s, "list_comments", d.token, arg, Refused(d))
               ELSE IF article_found = None
               THEN Done(s, "list_comments", d.token, arg, Err("ArticleNotExist"))
               ELSE Goto(s, "list_comments", "get_comments", d.token, arg,
                         [id |-> Unwrap(article_found).id])

\* list_comments, repo::comment::get_comments_by_article_id and the response.
list_comments_get_comments(s) ==
    /\ At(s, "list_comments", "get_comments")
    /\ UNCHANGED <<tables, next_id, now>>
    /\ LET r == req[s]
       IN  Done(s, r.op, r.token, r.arg,
                Ok([comments |-> get_comments_by_article_id(r.loc.id, r.token)]))

\* The headers of one client: anonymous, or with the token of user 1.
OneClient == {NoHeader, ValidHeader(1)}

\* The not-exist specification: the two users, one article of user 1, and
\* every handler that takes a slug or a username in its path, called by one
\* client on two connections.
InitNotExist == InitRelations

NextNotExist ==
    \E s \in Slots :
        \/ update_article(s, OneClient)
        \/ update_article_update(s)
        \/ delete_article(s, OneClient)
        \/ delete_article_delete(s)
        \/ favorite_article(s, "favorite_article", OneClient)
        \/ favorite_article_insert(s)
        \/ favorite_article(s, "unfavorite_article", OneClient)
        \/ unfavorite_article_delete(s)
        \/ respond_get_article_by_id(s)
        \/ create_comment(s, OneClient)
        \/ create_comment_insert(s)
        \/ create_comment_get_comment(s)
        \/ list_comments(s, OneClient)
        \/ list_comments_get_comments(s)
        \/ get_profile(s, OneClient)
        \/ follow_user(s, "follow_user", OneClient)
        \/ follow_user_create_follower(s)
        \/ follow_user(s, "unfollow_user", OneClient)
        \/ unfollow_user_delete_follower(s)
        \/ respond_get_profile_by_username(s)

SpecNotExist == InitNotExist /\ [][NextNotExist]_vars

SlugHandlers == {"update_article", "delete_article", "favorite_article",
                 "unfavorite_article", "create_comment", "list_comments"}

UsernameHandlers == {"get_profile", "follow_user", "unfollow_user"}

\* The step of slot s is the first statement of a handler body: the request
\* came in on a free connection and was not answered before its handler.
HandlerEntered(s) ==
    /\ Free(s)
    /\ Acted(s)
    /\ req'[s].pc = "done" =>
           req'[s].res.err \notin {"TypedHeaderRejection", "MissingExtension"}

\* The request of slot s ended with error err and no table changed.
FailsWith(s, err) ==
    /\ req'[s].pc = "done"
    /\ req'[s].res.err = err
    /\ UNCHANGED tables

\* C13: a request whose handler is entered with a slug that no stored
\* article has fails with ArticleNotExist, and one with a username that no
\* stored user has fails with UserNotExist; neither changes a table.
C13_NotExist ==
    [][\A s \in Slots :
         HandlerEntered(s) =>
             /\ (/\ req'[s].op \in SlugHandlers
                 /\ ~\E a \in article : a.slug = req'[s].arg.slug)
                    => FailsWith(s, "ArticleNotExist")
             /\ (/\ req'[s].op \in UsernameHandlers
                 /\ ~\E u \in user : u.username = req'[s].arg.username)
                    => FailsWith(s, "UserNotExist")]_vars

\* An update of a slug that is not stored was answered while an article and
\* a favorite are stored.
C13_Witness ==
    \E s \in Slots :
        /\ req[s].op = "update_article"
        /\ req[s].pc = "done"
        /\ req[s].res.err = "ArticleNotExist"
        /\ req[s].arg.slug = NoSlug
        /\ article # {}
        /\ favorited_article # {}

\* An unfollow of a username that is not stored was answered while a
\* follower row is stored.
C13_WitnessUser ==
    \E s \in Slots :
        /\ req[s].op = "unfollow_user"
        /\ req[s].pc = "done"
        /\ req[s].res.err = "UserNotExist"
        /\ req[s].arg.username = NoName
        /\ follower # {}

-----------------------------------------------------------------------------
(* The tag specification: the two users create articles with overlapping   *)
(* tag lists over two connections.                                         *)

\* tagList of the requests: absent, [x] or [x, y].
OverlappingTagLists == {None, Some({<<"x">>}), Some({<<"x">>, <<"y">>})}

InitTags == InitArticle

NextTags ==
    \E s \in Slots :
        \/ create_article(s, AuthHeaders, OverlappingTagLists)
        \/ create_article_create_tags(s)
        \/ create_article_get_tags_ids(s)
        \/ create_article_create_article_tags(s)
        \/ respond_get_article_by_id(s)

SpecTags == InitTags /\ [][NextTags]_vars

\* No two tag rows have the same name.
OneRowPerName == \A t, u \in tag : t.tag_name = u.tag_name => t = u

\* The statements of create_article after the insert of the article row.
TagStatements == {"create_tags", "get_tags_ids", "create_article_tags", "get_article"}

\* C14: there is never more than one tag row of a name; after create_tags
\* every name of the request has its row, whether it was stored before or
\* not; and a create_article whose article row was inserted is answered
\* with the article, stored tag names or not.
C14_TagsOnce ==
    /\ []OneRowPerName
    /\ [][\A s \in Slots :
            (At(s, "create_article", "create_tags") /\ req'[s] # req[s]) =>
                /\ req'[s].pc = "get_tags_ids"
                /\ \A n \in req[s].loc.names :
                       Cardinality({t \in tag' : t.tag_name = n}) = 1]_vars
    /\ [][\A s \in Slots :
            (/\ req[s].op = "create_article"
             /\ req[s].pc \in TagStatements
             /\ req'[s].pc = "done")
                => /\ req'[s].res.status = 200
                   /\ IsSome(req'[s].res.body.article)]_vars

\* Two requests with the tag lists [x] and [x, y] are both past create_tags,
\* and the tags are the two rows x and y.
C14_Witness ==
    /\ \A s \in Slots : /\ req[s].op = "create_article"
                        /\ req[s].pc \in {"get_tags_ids", "create_article_tags"}
    /\ \E s, t \in Slots : /\ req[s].loc.id # req[t].loc.id
                           /\ Cardinality(tag) = 2
                           /\ {n.tag_name : n \in tag} = {<<"x">>, <<"y">>}

\* A create_article whose tag names were all stored before it was answered
\* with its article.
C14_WitnessStored ==
    \E s \in Slots :
        /\ req[s].op = "create_article"
        /\ req[s].pc = "done"
        /\ req[s].res.status = 200
        /\ Cardinality(article) = 2
        /\ Cardinality(article_tag) = 3
        /\ Cardinality(tag) = 2

-----------------------------------------------------------------------------
(* Claims about a repeated favorite *)

\* C15: the insert of a favorite whose (article, user) row is already stored
\* is answered with the database error (422) and leaves favorited_article as
\* it was.
C15_FavoriteOnce ==
    [][\A s \in Slots :
         (/\ At(s, "favorite_article", "write")
          /\ req'[s] # req[s]
          /\ [article_id |-> req[s].loc.id, user_id |-> Unwrap(req[s].token)]
                 \in favorited_article)
            => /\ req'[s].pc = "done"
               /\ req'[s].res.err = "DbErr::Exec"
               /\ req'[s].res.status = 422
               /\ UNCHANGED favorited_article]_vars

\* A favorite was answered with the database error while the article of the
\* fixture, never deleted, is the favorite of both users: the row was there.
C15_Witness ==
    \E s \in Slots :
        /\ req[s].op = "favorite_article"
        /\ req[s].pc = "done"
        /\ req[s].res.err = "DbErr::Exec"
        /\ article = OneArticle
        /\ next_id.article = 1
        /\ Cardinality(favorited_article) = 2

-----------------------------------------------------------------------------
(* The middleware specification: an unauthenticated client on connection 1 *)
(* and user 2 with a token on connection 2 call the routes of both layers. *)

\* api::tags::list_tags: repo::tag::get_tags, the names of all tags.
list_tags(s, headers) ==
    \E hdr \in headers :
        LET d == Dispatch("list_tags", hdr)
        IN  /\ Free(s)
            /\ UNCHANGED <<tables, next_id, now>>
            /\ IF d.outcome # "handler"
               THEN Done(s, "list_tags", d.token, Nil, Refused(d))
               ELSE Done(s, "list_tags", d.token, Nil,
                         Ok([tags |-> {tg.tag_name : tg \in tag}]))

\* api::user::get_current_user: repo::user::get_user_with_token_by_id of the
\* token's id.
get_current_user(s, headers) ==
    \E hdr \in headers :
        LET d == Dispatch("get_current_user", hdr)
            arg == [current_user_id |-> d.token]
        IN  /\ Free(s)
            /\ UNCHANGED <<tables, next_id, now>>
            /\ IF d.outcome # "handler"
               THEN Done(s, "get_current_user", d.token, arg, Refused(d))
               ELSE LET current_user == get_user_by_id(Unwrap(d.token))
                    IN  IF current_user = None
                        THEN Done(s, "get_current_user", d.token, arg, Err("UserNotExist"))
                        ELSE Done(s, "get_current_user", d.token, arg,
                                  Ok([user |-> UserWithToken(Unwrap(current_user))]))

\* The headers of the client of a connection: connection 1 sends no header
\* or one that does not decode, connection 2 the token of user 2.
Client(s) == IF s = 1 THEN {NoHeader, BadHeader} ELSE {ValidHeader(2)}

InitMiddleware == InitFlags

NextMiddleware ==
    \E s \in Slots :
        \/ get_profile(s, Client(s))
        \/ get_article(s, Client(s))
        \/ list_articles(s, Client(s), {NoParams})
        \/ list_articles_count(s)
        \/ list_comments(s, Client(s))
        \/ list_comments_get_comments(s)
        \/ list_tags(s, Client(s))
        \/ get_current_user(s, Client(s))
        \/ feed_articles(s, Client(s), {NoParams})
        \/ feed_articles_count(s)
        \/ follow_user(s, "follow_user", Client(s))
        \/ follow_user_create_follower(s)
        \/ follow_user(s, "unfollow_user", Client(s))
        \/ unfollow_user_delete_follower(s)
        \/ respond_get_profile_by_username(s)
        \/ favorite_article(s, "favorite_article", Client(s))
        \/ favorite_article_insert(s)
        \/ favorite_article(s, "unfavorite_article", Client(s))
        \/ unfavorite_article_delete(s)
        \/ respond_get_article_by_id(s)
        \/ delete_article(s, Client(s))
        \/ delete_article_delete(s)

SpecMiddleware == InitMiddleware /\ [][NextMiddleware]_vars

\* The step of slot s is the arrival of a request.
Arrives(s) == Free(s) /\ Acted(s)

\* The request that arrived in slot s was answered before its handler body.
NotServed(s) ==
    /\ req'[s].pc = "done"
    /\ req'[s].res.err \in {"TypedHeaderRejection", "MissingExtension"}

\* The id of the token of the client of connection s, if it has one.
ClientToken(s) == {hdr.id : hdr \in {h \in Client(s) : h.kind = "valid"}}

\* The GET routes of the optional_auth layer, and those of them whose
\* handler takes Option<Extension<Token>>.
OptionalGets == {"get_profile", "list_articles", "get_article", "list_comments", "list_tags"}

\* The requester id the handler of the request that arrived in slot s works
\* with: maybe_token.map(|tkn| tkn.id).
HandlerToken(s) ==
    IF req'[s].op = "list_articles" THEN req'[s].token
    ELSE req'[s].arg.current_user_id

\* C16: a GET request on a route of the optional_auth layer always reaches
\* its handler; from the client without a valid token the handler has no
\* requester id (and computes no flag as true), from the client with the
\* token of user 2 it has the id 2.
C16_OptionalAuth ==
    [][\A s \in Slots :
         (Arrives(s) /\ req'[s].op \in OptionalGets) =>
             /\ ~NotServed(s)
             /\ req'[s].op # "list_tags" => HandlerToken(s) = ClientToken(s)
             /\ (ClientToken(s) = None /\ req'[s].op = "get_profile"
                    /\ req'[s].res.status = 200)
                    => ~req'[s].res.body.profile.following]_vars

\* The client without a token got the profile of a user that user 2 follows,
\* with following = false.
C16_Witness ==
    /\ req[1].op = "get_profile"
    /\ req[1].pc = "done"
    /\ req[1].res.status = 200
    /\ req[1].arg.current_user_id = None
    /\ [user_id |-> req[1].res.body.profile.id, follower_id |-> 2] \in follower

\* User 2 got the profile of a user it follows, with following = true.
C16_WitnessToken ==
    /\ req[2].op = "get_profile"
    /\ req[2].pc = "done"
    /\ req[2].res.status = 200
    /\ req[2].arg.current_user_id = Some(2)
    /\ req[2].res.body.profile.following

\* C17: a request without a valid token on a route of the auth layer is
\* answered by the middleware with the rejection of the Authorization header
\* and is not forwarded.
C17_AuthRejects ==
    [][\A s \in Slots :
         (/\ Arrives(s)
          /\ Route(req'[s].op).layer = "auth"
          /\ ClientToken(s) = None)
            => /\ req'[s].pc = "done"
               /\ req'[s].res.err = "TypedHeaderRejection"]_vars

\* The same for the routes of the auth layer that are not GET.
C17_AuthRejectsNonGet ==
    [][\A s \in Slots :
         (/\ Arrives(s)
          /\ Route(req'[s].op).layer = "auth"
          /\ Route(req'[s].op).method # "GET"
          /\ ClientToken(s) = None)
            => /\ req'[s].pc = "done"
               /\ req'[s].res.err = "TypedHeaderRejection"]_vars

\* GET /api/user from the client without a token was forwarded and answered
\* 500 by the Extension<Token> extractor of get_current_user.
C17_Witness ==
    /\ req[1].op = "get_current_user"
    /\ req[1].pc = "done"
    /\ req[1].res.err = "MissingExtension"
    /\ req[1].res.status = 500

-----------------------------------------------------------------------------
(* Claims about following oneself *)

\* C18: no follower row has user_id equal to follower_id, and the insert of
\* a follow of the requester's own user is answered with the database error
\* (422) and writes nothing.
C18_NoSelfFollow ==
    /\ [](\A f \in follower : f.user_id # f.follower_id)
    /\ [][\A s \in Slots :
            (/\ At(s, "follow_user", "write")
             /\ req'[s] # req[s]
             /\ req[s].loc.id = Unwrap(req[s].token))
                => /\ req'[s].pc = "done"
                   /\ req'[s].res.err = "DbErr::Exec"
                   /\ req'[s].res.status = 422
                   /\ UNCHANGED follower]_vars

\* User 2, the only client with a token, asked to follow its own username
\* and got the database error.
C18_Witness ==
    /\ req[2].op = "follow_user"
    /\ req[2].pc = "done"
    /\ req[2].res.err = "DbErr::Exec"
    /\ \E u \in user : u.id = 2 /\ u.username = req[2].arg.username

-----------------------------------------------------------------------------
(* Claims about the status of the not-exist errors *)

NotExistErrors == {"UserNotExist", "ArticleNotExist", "CommentNotExist"}

\* C19: every response with a not-exist error has the status 404.
C19_NotExistIs404 ==
    \A s \in Slots :
        (req[s].pc = "done" /\ req[s].res.err \in NotExistErrors)
            => req[s].res.status = 404

\* The same for UserNotExist and ArticleNotExist alone.
C19_UserAndArticleNotExist404 ==
    \A s \in Slots :
        (req[s].pc = "done" /\ req[s].res.err \in {"UserNotExist", "ArticleNotExist"})
            => req[s].res.status = 404

\* The delete of a comment id that is not stored was answered 500.
C19_Witness ==
    \E s \in Slots :
        /\ req[s].op = "delete_comment"
        /\ req[s].pc = "done"
        /\ req[s].res.err = "CommentNotExist"
        /\ req[s].res.status = 500

====
